---- MODULE Spec2Model ----
(***************************************************************************)
(* A model of jinjaapidoc.gendoc: the tree walk (recurse_tree), the        *)
(* context builder (get_context), the writer (write_file) and the two      *)
(* entry points (generate, main).  Paths and names are strings, and the    *)
(* string functions of the Python library the code calls (startswith,      *)
(* splitext, os.path.join, os.path.normpath, split, lstrip, replace) are   *)
(* computed character by character.                                        *)
(***************************************************************************)
EXTENDS Integers, Sequences, FiniteSets, TLC

(***************************************************************************)
(* Strings                                                                 *)
(***************************************************************************)
SEP == "/"

Ch(s, i) == SubSeq(s, i, i)

startswith(s, p) == Len(s) >= Len(p) /\ SubSeq(s, 1, Len(p)) = p

\* The characters of the names of the model, in ASCII order.
Chars == "./_abcdefghijklmnopqrstuvwxyz"

Ord(c) == CHOOSE i \in 1..Len(Chars) : Ch(Chars, i) = c

\* Python's str.__lt__: the first differing character decides, a proper
\* prefix is smaller.
RECURSIVE StrLess(_, _)
StrLess(a, b) ==
    IF Len(b) = 0 THEN FALSE
    ELSE IF Len(a) = 0 THEN TRUE
    ELSE IF Ch(a, 1) # Ch(b, 1) THEN Ord(Ch(a, 1)) < Ord(Ch(b, 1))
    ELSE StrLess(SubSeq(a, 2, Len(a)), SubSeq(b, 2, Len(b)))

\* sorted(S) for a set of strings.
RECURSIVE sorted(_)
sorted(S) ==
    IF S = {} THEN <<>>
    ELSE LET m == CHOOSE x \in S : \A y \in S \ {x} : StrLess(x, y)
         IN <<m>> \o sorted(S \ {m})

\* s.split(sep) for a one-character sep: the list of the pieces.
RECURSIVE SplitFrom(_, _, _, _)
SplitFrom(s, sep, i, cur) ==
    IF i > Len(s) THEN <<cur>>
    ELSE IF Ch(s, i) = sep THEN <<cur>> \o SplitFrom(s, sep, i + 1, "")
    ELSE SplitFrom(s, sep, i + 1, cur \o Ch(s, i))

split(s, sep) == SplitFrom(s, sep, 1, "")

\* sep.join(list)
RECURSIVE joinstr(_, _)
joinstr(sep, l) ==
    IF Len(l) = 0 THEN ""
    ELSE IF Len(l) = 1 THEN l[1]
    ELSE l[1] \o sep \o joinstr(sep, Tail(l))

\* s.lstrip(c) for a one-character c
RECURSIVE lstrip(_, _)
lstrip(s, c) ==
    IF Len(s) > 0 /\ Ch(s, 1) = c THEN lstrip(SubSeq(s, 2, Len(s)), c) ELSE s

\* s.replace(a, b) for one-character a
replace(s, a, b) == joinstr(b, split(s, a))

\* The index of the last occurrence of c in s, 0 when there is none.
RECURSIVE rfind(_, _, _)
rfind(s, c, i) ==
    IF i = 0 THEN 0 ELSE IF Ch(s, i) = c THEN i ELSE rfind(s, c, i - 1)

\* os.path.splitext(p): the extension starts at the last dot of the last
\* component, leading dots of that component not counted.
RECURSIVE LeadingDots(_, _)
LeadingDots(s, i) ==
    IF i <= Len(s) /\ Ch(s, i) = "." THEN LeadingDots(s, i + 1) ELSE i

splitext(p) ==
    LET sepIndex == rfind(p, SEP, Len(p))
        dotIndex == rfind(p, ".", Len(p))
        first    == LeadingDots(p, sepIndex + 1)
    IN IF dotIndex > sepIndex /\ first <= dotIndex
       THEN <<SubSeq(p, 1, dotIndex - 1), SubSeq(p, dotIndex, Len(p))>>
       ELSE <<p, "">>

\* os.path.join(a, b)
pathjoin(a, b) ==
    IF startswith(b, SEP) THEN b
    ELSE IF a = "" \/ Ch(a, Len(a)) = SEP THEN a \o b
    ELSE a \o SEP \o b

\* os.path.normpath(path)
RECURSIVE NormComps(_, _, _)
NormComps(comps, new, initial) ==
    IF Len(comps) = 0 THEN new
    ELSE LET comp == Head(comps)
             rest == Tail(comps)
         IN IF comp \in {"", "."} THEN NormComps(rest, new, initial)
            ELSE IF comp # ".."
                    \/ (initial = 0 /\ Len(new) = 0)
                    \/ (Len(new) > 0 /\ new[Len(new)] = "..")
                 THEN NormComps(rest, Append(new, comp), initial)
            ELSE IF Len(new) > 0
                 THEN NormComps(rest, SubSeq(new, 1, Len(new) - 1), initial)
            ELSE NormComps(rest, new, initial)

normpath(path) ==
    IF path = "" THEN "."
    ELSE LET initial == IF startswith(path, "//") /\ ~startswith(path, "///") THEN 2
                        ELSE IF startswith(path, SEP) THEN 1 ELSE 0
             body == joinstr(SEP, NormComps(split(path, SEP), <<>>, initial))
             res == (IF initial = 2 THEN "//" ELSE IF initial = 1 THEN "/" ELSE "") \o body
         IN IF res = "" THEN "." ELSE res

\* The process's working directory, which os.path.abspath joins to a
\* relative path.
CWD == "/w"

abspath(path) == normpath(IF startswith(path, SEP) THEN path ELSE pathjoin(CWD, path))


\* s.strip(c) for a one-character c
RECURSIVE rstrip(_, _)
rstrip(s, c) ==
    IF Len(s) > 0 /\ Ch(s, Len(s)) = c THEN rstrip(SubSeq(s, 1, Len(s) - 1), c) ELSE s

strip(s, c) == rstrip(lstrip(s, c), c)

\* os.path.dirname and os.path.basename
dirname(p) ==
    LET i == rfind(p, SEP, Len(p))
        h == SubSeq(p, 1, i)
    IN IF h # "" /\ rstrip(h, SEP) # "" THEN rstrip(h, SEP) ELSE h

basename(p) == SubSeq(p, rfind(p, SEP, Len(p)) + 1, Len(p))

\* Python's None where the code passes "a str or None"; no name of the
\* model contains its characters.
None == "<None>"

\* bool(s) of a str or None
Truthy(s) == s # None /\ s # ""

(***************************************************************************)
(* Constants of gendoc.py                                                  *)
(***************************************************************************)
INITPY == "__init__.py"

PY_SUFFIXES == {".py", ".pyx"}

MODULE_TEMPLATE_NAME == "jinjaapi_module.rst"

PACKAGE_TEMPLATE_NAME == "jinjaapi_package.rst"

(***************************************************************************)
(* The source tree: [dirs, files], two sets of absolute paths.             *)
(***************************************************************************)
\* os.path.isdir(p), of a path as the caller gives it
isdir(tr, p) == p # "" /\ abspath(p) \in tr.dirs

\* The names os.listdir(d) returns, sub-directories and files apart (the
\* pair walk() yields as subs and files).
listsubs(tr, d) == {basename(p) : p \in {q \in tr.dirs : q # d /\ dirname(q) = d}}

listfiles(tr, d) == {basename(p) : p \in {q \in tr.files : dirname(q) = d}}

listdir(tr, d) == listsubs(tr, d) \cup listfiles(tr, d)

(***************************************************************************)
(* makename, shall_skip, is_excluded                                       *)
(***************************************************************************)
\* What a failed assertion of makename raises.
MakenameError == "AssertionError: Specify either package or module"

\* The assertion of makename: "Specify either package or module".
makename_assert(package, module) == Truthy(package) \/ Truthy(module)

makename(package, module) ==
    IF Truthy(package)
    THEN IF Truthy(module) THEN package \o "." \o module ELSE package
    ELSE module

shall_skip(module, private) ==
    IF module # "__init__.py" /\ startswith(module, "_") /\ ~private
    THEN TRUE
    ELSE FALSE

\* The loop with a prefix test in place of the equality.
RECURSIVE is_excluded_loop_prefix(_, _)
is_excluded_loop_prefix(root, excludes) ==
    IF Len(excludes) = 0 THEN FALSE
    ELSE IF startswith(root, Head(excludes)) THEN TRUE
    ELSE is_excluded_loop_prefix(root, Tail(excludes))

\* excludes is a list; the loop returns at the first equal entry.
RECURSIVE is_excluded_loop(_, _)
is_excluded_loop(root, excludes) ==
    IF Len(excludes) = 0 THEN FALSE
    ELSE IF root = Head(excludes) THEN TRUE
    ELSE is_excluded_loop(root, Tail(excludes))

is_excluded(root, excludes) == is_excluded_loop(normpath(root), excludes)

normalize_excludes(excludes) ==
    [i \in 1..Len(excludes) |-> normpath(abspath(excludes[i]))]

(***************************************************************************)
(* The output directory: [exists, files], files a function from the path   *)
(* of each regular file in it to the file's content.  A content is the     *)
(* list of the texts written to the file since it was last truncated.      *)
(***************************************************************************)
isfile(fs, fname) == fs.exists /\ fname \in DOMAIN fs.files

\* The file opened with 'a': the text is appended.
open_a_write(fs, fname, text) ==
    [fs EXCEPT !.files = (fname :> (IF fname \in DOMAIN fs.files THEN fs.files[fname]
                                    ELSE <<>>) \o <<text>>) @@ fs.files]

\* open(fname, 'w'); f.write(text); f.close()
open_w_write(fs, fname, text) ==
    [fs EXCEPT !.files = (fname :> <<text>>) @@ fs.files]

\* The content of fname, <<>> when it is no file.
content(fs, fname) == IF isfile(fs, fname) THEN fs.files[fname] ELSE <<>>

\* What the history of a run keeps of a write_file call that found the
\* output directory as fs and left it as fs1.
call_record(fs, fs1, fname, name, text, dryrun, force) ==
    [name |-> name, fname |-> fname, text |-> text, dryrun |-> dryrun, force |-> force,
     existed |-> isfile(fs, fname), before |-> content(fs, fname),
     exists |-> isfile(fs1, fname), after |-> content(fs1, fname)]

\* The result of a write_file call: [fs, calls, raised], the directory
\* after the call, the record of the call and the exception raised, "" if
\* none.
written(fs, fs1, raised, fname, name, text, dryrun, force) ==
    [fs |-> fs1, raised |-> raised,
     calls |-> <<call_record(fs, fs1, fname, name, text, dryrun, force)>>]

\* write_file with the test of force left out of the skip.
write_fname_noforce(fs, fname, name, text, dryrun, force) ==
    IF dryrun
    THEN written(fs, fs, "", fname, name, text, dryrun, force)
    ELSE IF isfile(fs, fname)
    THEN written(fs, fs, "", fname, name, text, dryrun, force)
    ELSE IF ~fs.exists
    THEN written(fs, fs, "IOError", fname, name, text, dryrun, force)
    ELSE written(fs, open_w_write(fs, fname, text), "", fname, name, text, dryrun, force)

\* The body of write_file(app, name, text, dest, suffix, dryrun, force),
\* fname computed, on the output directory fs.
write_fname(fs, fname, name, text, dryrun, force) ==
    IF dryrun
    THEN written(fs, fs, "", fname, name, text, dryrun, force)
    ELSE IF ~force /\ isfile(fs, fname)
    THEN written(fs, fs, "", fname, name, text, dryrun, force)
    ELSE IF ~fs.exists
    THEN written(fs, fs, "IOError", fname, name, text, dryrun, force)
    ELSE written(fs, open_w_write(fs, fname, text), "", fname, name, text, dryrun, force)

write_file(fs, name, text, dest, suffix, dryrun, force) ==
    write_fname(fs, pathjoin(dest, name \o "." \o suffix), name, text, dryrun, force)

(***************************************************************************)
(* Import and introspection.  The interpreter's importable modules are a   *)
(* function from dotted names to module objects [path, attrs]: path is     *)
(* the package's directory (its __path__) or None for a plain module, and  *)
(* attrs the list dir() gives, each [name, kind, module].                  *)
(***************************************************************************)
\* import_name(app, name): the object, or None after an ImportError.
import_ok(mods, name) == name \in DOMAIN mods

\* The tests without the comparison of x.__module__ with mod.__name__.
member_test_anywhere(typ, a, modname) ==
    CASE typ = "class"     -> a.kind = "class"
      [] typ = "function"  -> a.kind = "function"
      [] typ = "exception" -> a.kind = "exception"
      [] typ = "data"      -> a.kind \notin {"module", "class", "exception", "function"}
      [] typ = "members"   -> TRUE
      [] OTHER             -> FALSE

\* The test of get_members for typ on attribute a of mod: a.kind tells
\* inspect.isclass (kinds class and exception), issubclass of BaseException
\* (kind exception), inspect.isfunction and inspect.ismodule; a.module is
\* x.__module__.
member_test(typ, a, modname) ==
    CASE typ = "class"     -> a.kind = "class" /\ a.module = modname
      [] typ = "function"  -> a.kind = "function" /\ a.module = modname
      [] typ = "exception" -> a.kind = "exception" /\ a.module = modname
      [] typ = "data"      -> a.kind \notin {"module", "class", "exception", "function"}
      [] typ = "members"   -> TRUE
      [] OTHER             -> FALSE

RECURSIVE member_items(_, _, _)
member_items(attrs, typ, modname) ==
    IF Len(attrs) = 0 THEN <<>>
    ELSE (IF member_test(typ, Head(attrs), modname) THEN <<Head(attrs).name>> ELSE <<>>)
         \o member_items(Tail(attrs), typ, modname)

\* The public names without the whitelist.
RECURSIVE member_public_plain(_, _)
member_public_plain(items, include_public) ==
    IF Len(items) = 0 THEN <<>>
    ELSE (IF ~startswith(Head(items), "_") THEN <<Head(items)>> ELSE <<>>)
         \o member_public_plain(Tail(items), include_public)

RECURSIVE member_public(_, _)
member_public(items, include_public) ==
    IF Len(items) = 0 THEN <<>>
    ELSE (IF Head(items) \in include_public \/ ~startswith(Head(items), "_")
          THEN <<Head(items)>> ELSE <<>>)
         \o member_public(Tail(items), include_public)

\* get_members(app, mod, typ, include_public): <<public, items>>
get_members(mod, modname, typ, include_public) ==
    LET items == member_items(mod.attrs, typ, modname)
    IN <<member_public(items, include_public), items>>

\* pkgutil.iter_modules(path) over the tree: the modules of the directory
\* (any file with a module suffix but __init__) and its packages (any
\* sub-directory holding __init__.py), as <<name, ispkg>> in name order.
iter_modules(tr, path) ==
    LET mods == {splitext(f)[1] : f \in {g \in listfiles(tr, path) :
                    splitext(g)[2] = ".py" /\ splitext(g)[1] # "__init__"}}
        pkgs == {d \in listsubs(tr, path) :
                    INITPY \in listfiles(tr, pathjoin(path, d)) /\ d \notin mods}
        names == sorted(mods \cup pkgs)
    IN [i \in 1..Len(names) |-> <<names[i], names[i] \in pkgs>>]

_get_submodules(tr, module) ==
    IF module.path # None THEN iter_modules(tr, module.path) ELSE <<>>

\* get_submodules without its filter on ispkg.
get_submodules_all(tr, module) ==
    LET l == _get_submodules(tr, module)
    IN [i \in 1..Len(l) |-> l[i][1]]

get_submodules(tr, module) ==
    LET l == _get_submodules(tr, module)
    IN SelectSeq([i \in 1..Len(l) |-> IF l[i][2] THEN "" ELSE l[i][1]], LAMBDA n : n # "")

get_subpackages(tr, module) ==
    LET l == _get_submodules(tr, module)
    IN SelectSeq([i \in 1..Len(l) |-> IF l[i][2] THEN l[i][1] ELSE ""], LAMBDA n : n # "")

\* The keys get_context binds to [] when the import failed.
FailedKeys ==
    <<"subpkgs", "submods", "classes", "allclasses", "exceptions", "allexceptions",
      "functions", "allfunctions", "data", "alldata", "memebers">>

\* get_context that, when the import failed, lists the submodules from the
\* files of the package's directory.
get_context_from_files(tr, mods, package, module, fullname) ==
    LET var == ("package" :> package) @@ ("module" :> module) @@ ("fullname" :> fullname)
    IN IF ~import_ok(mods, fullname)
       THEN LET rel == SEP \o replace(fullname, ".", SEP)
                dirs == {d \in tr.dirs : /\ Len(d) >= Len(rel)
                                         /\ SubSeq(d, Len(d) - Len(rel) + 1, Len(d)) = rel}
            IN ("submods" :> IF dirs = {} THEN <<>>
                             ELSE get_submodules(tr, [path |-> CHOOSE d \in dirs : TRUE]))
            @@ [k \in {FailedKeys[i] : i \in 1..Len(FailedKeys)} |-> <<>>] @@ var
       ELSE LET obj == mods[fullname]
                cls == get_members(obj, fullname, "class", {})
                exc == get_members(obj, fullname, "exception", {})
                fun == get_members(obj, fullname, "function", {})
                dat == get_members(obj, fullname, "data", {})
            IN ("subpkgs" :> get_subpackages(tr, obj))
               @@ ("submods" :> get_submodules(tr, obj))
               @@ ("classes" :> cls[1]) @@ ("allclasses" :> cls[2])
               @@ ("exceptions" :> exc[1]) @@ ("allexceptions" :> exc[2])
               @@ ("functions" :> fun[1]) @@ ("allfunctions" :> fun[2])
               @@ ("data" :> dat[1]) @@ ("alldata" :> dat[2])
               @@ ("members" :> get_members(obj, fullname, "members", {}))
               @@ var

\* get_context(app, package, module, fullname): the template variables, a
\* function from their names.
get_context(tr, mods, package, module, fullname) ==
    LET var == ("package" :> package) @@ ("module" :> module) @@ ("fullname" :> fullname)
    IN IF ~import_ok(mods, fullname)
       THEN [k \in {FailedKeys[i] : i \in 1..Len(FailedKeys)} |-> <<>>] @@ var
       ELSE LET obj == mods[fullname]
                cls == get_members(obj, fullname, "class", {})
                exc == get_members(obj, fullname, "exception", {})
                fun == get_members(obj, fullname, "function", {})
                dat == get_members(obj, fullname, "data", {})
            IN ("subpkgs" :> get_subpackages(tr, obj))
               @@ ("submods" :> get_submodules(tr, obj))
               @@ ("classes" :> cls[1]) @@ ("allclasses" :> cls[2])
               @@ ("exceptions" :> exc[1]) @@ ("allexceptions" :> exc[2])
               @@ ("functions" :> fun[1]) @@ ("allfunctions" :> fun[2])
               @@ ("data" :> dat[1]) @@ ("alldata" :> dat[2])
               @@ ("members" :> get_members(obj, fullname, "members", {}))
               @@ var

\* template.render(var): the text is a function of the template and of the
\* variables; the templates themselves are not part of gendoc.py.
render(template, var) == [template |-> template, var |-> var]

(***************************************************************************)
(* create_module_file.  o holds the arguments passed down unchanged:       *)
(* [dest, suffix, dryrun, force, private].  The result is that of          *)
(* write_file.                                                             *)
(***************************************************************************)
create_module_file(fs, tr, mods, package, module, o) ==
    IF ~makename_assert(package, module)
    THEN [fs |-> fs, calls |-> <<>>, raised |-> MakenameError]
    ELSE write_file(fs, makename(package, module),
                    render(MODULE_TEMPLATE_NAME,
                           ("ispkg" :> FALSE)
                           @@ get_context(tr, mods, package, module,
                                          makename(package, module))),
                    o.dest, o.suffix, o.dryrun, o.force)

(***************************************************************************)
(* recurse_tree                                                            *)
(***************************************************************************)
\* py_files, the marker file moved to the front when it is there
py_files_of(tr, root, excludes) ==
    LET l == sorted({f \in listfiles(tr, root) :
                        splitext(f)[2] \in PY_SUFFIXES
                        /\ ~is_excluded(pathjoin(root, f), excludes)})
    IN IF \E i \in 1..Len(l) : l[i] = INITPY
       THEN <<INITPY>> \o SelectSeq(l, LAMBDA f : f # INITPY)
       ELSE l

\* A walk that keeps no sub-directory and so never leaves the root.
subs_none(tr, root, excludes, private) == <<>>

\* subs[:] = sorted(...): the sub-directories kept
subs_of(tr, root, excludes, private) ==
    LET exclude_prefixes == IF private THEN {"."} ELSE {".", "_"}
    IN sorted({sub \in listsubs(tr, root) :
                  (\A pre \in exclude_prefixes : ~startswith(sub, pre))
                  /\ ~is_excluded(pathjoin(root, sub), excludes)})

\* is_pkg taken from py_files being non-empty.
is_pkg_any(py_files) == Len(py_files) > 0

\* is_pkg = INITPY in py_files
is_pkg_of(py_files) == INITPY \in {py_files[i] : i \in 1..Len(py_files)}

\* The condition under which a package directory gets its document.
qualifies(subs, py_files, root, private) ==
    Len(subs) > 0 \/ Len(py_files) > 1 \/ ~shall_skip(pathjoin(root, INITPY), private)

\* subpackage: root below src, as a dotted name
subpackage_of(root, src) ==
    replace(lstrip(SubSeq(root, Len(src) + 1, Len(root)), SEP), SEP, ".")

\* The head of recurse_tree: the name of the base directory when it is a
\* package.
root_package_of(tr, src) ==
    IF INITPY \in listdir(tr, src)
    THEN LET parts == split(src, SEP) IN parts[Len(parts)]
    ELSE None

(***************************************************************************)
(* prepare_dir                                                             *)
(***************************************************************************)
\* shutil.rmtree(directory)
rmtree(fs) == [exists |-> FALSE, files |-> <<>>]

\* os.mkdir(directory), os.makedirs(directory)
mkdir(fs) == [fs EXCEPT !.exists = TRUE]

prepare_dir(fs, delete) ==
    IF fs.exists
    THEN IF delete THEN mkdir(rmtree(fs)) ELSE fs
    ELSE mkdir(fs)

(***************************************************************************)
(* The inputs of the model                                                 *)
(***************************************************************************)
\* How many calls of an entry point a behaviour makes.
MaxRuns == 2

\* The source trees: /w/root always holds mod_a.py; the marker file of the
\* root, the directory pkg_b with its marker file and with mod_c.py, and a
\* group of extras (a private module, a file that is no Python source, a
\* hidden directory, a directory that is no package) are there or not.
TreeOf(F) ==
    [files |-> F \cup {"/w/root/mod_a.py"},
     dirs  |-> {"/", "/w", "/w/root"} \cup {dirname(f) : f \in F}]

Extras ==
    {"/w/root/_priv.py", "/w/root/notes.txt", "/w/root/.git/hook.py",
     "/w/root/plain/mod_d.py"}

Trees ==
    {TreeOf((IF r THEN {"/w/root/__init__.py"} ELSE {})
            \cup (IF b THEN {"/w/root/pkg_b/__init__.py"} ELSE {})
            \cup (IF c THEN {"/w/root/pkg_b/mod_c.py"} ELSE {})
            \cup (IF e THEN Extras ELSE {})) : r, b, c, e \in BOOLEAN}

FullTree == TreeOf({"/w/root/__init__.py", "/w/root/pkg_b/__init__.py",
                    "/w/root/pkg_b/mod_c.py"})

\* The tree with a marker file in the root of the filesystem.
SlashTree == [FullTree EXCEPT !.files = @ \cup {"/__init__.py"}]

\* The directory sys.path holds, from which the names of the tree import:
\* the parent of a root that is a package, else the root.
ImportBase(tr) ==
    IF "/w/root/__init__.py" \in tr.files THEN "/w" ELSE "/w/root"

DottedName(tr, p) ==
    replace(lstrip(SubSeq(p, Len(ImportBase(tr)) + 1, Len(p)), SEP), SEP, ".")

RECURSIVE IsPackageDir(_, _)
IsPackageDir(tr, d) ==
    /\ d # SEP
    /\ pathjoin(d, INITPY) \in tr.files
    /\ (dirname(d) = ImportBase(tr) \/ IsPackageDir(tr, dirname(d)))

\* What dir() lists of every module of the tr.
AttrsOf(name) ==
    <<[name |-> "Klass", kind |-> "class", module |-> name],
      [name |-> "_helper", kind |-> "function", module |-> name],
      [name |-> "os", kind |-> "module", module |-> "os"]>>

\* The modules of the tree an import finds, but for the names in broken.
ModulesOf(tr, broken) ==
    LET pkgs == {d \in tr.dirs : IsPackageDir(tr, d)}
        mods == {f \in tr.files :
                    /\ splitext(f)[2] = ".py"
                    /\ basename(f) # INITPY
                    /\ (dirname(f) = ImportBase(tr) \/ dirname(f) \in pkgs)}
        pkgname == [d \in pkgs |-> DottedName(tr, d)]
        modname == [f \in mods |-> DottedName(tr, splitext(f)[1])]
        names == ({pkgname[d] : d \in pkgs} \cup {modname[f] : f \in mods}) \ broken
    IN [n \in names |->
          [path  |-> IF \E d \in pkgs : pkgname[d] = n
                     THEN CHOOSE d \in pkgs : pkgname[d] = n ELSE None,
           attrs |-> AttrsOf(n)]]

BrokenChoices ==
    {{}, {"pkg_b", "root.pkg_b"},
     {"root", "pkg_b", "root.pkg_b", "mod_a", "root.mod_a"}}

\* jinjaapi_exclude_paths, as the user writes them (not normalized)
ExcludeChoices ==
    {<<>>, <<"root/pkg_b/", "/w/root/./mod_a.py">>, <<"root/__init__.py">>}

\* jinjaapi_srcdir: the root of a tr, a file, nothing, the root of the
\* filesystem
SrcChoices == {"root", "root/mod_a.py", "", "/"}

OUT == "/w/doc/api"

StaleText == [template |-> "stale", var |-> ("fullname" :> "stale")]

\* The output directory before the first run: missing, or holding files
FsChoices ==
    {[exists |-> FALSE, files |-> <<>>],
     [exists |-> TRUE,
      files |-> ("/w/doc/api/root.rst" :> <<StaleText>>)
                @@ ("/w/doc/api/mod_a.rst" :> <<StaleText>>)
                @@ ("/w/doc/api/keep.txt" :> <<StaleText>>)]}

NoRun == [src |-> "", excludes |-> <<>>,
          before |-> [exists |-> FALSE, files |-> <<>>],
          o |-> [dest |-> "", suffix |-> "", dryrun |-> FALSE, force |-> FALSE,
                 private |-> FALSE]]

NoProbe == [excludes |-> <<>>, given |-> <<>>, root |-> "", result |-> FALSE,
            asked |-> FALSE]

NoMember == [mod |-> [path |-> None, attrs |-> <<>>], name |-> "", typ |-> "",
             include_public |-> {}, public |-> <<>>, items |-> <<>>, asked |-> FALSE]

NoJob == [root_package |-> None, sub_package |-> "", fn |-> "", var |-> <<>>,
          rest |-> <<>>]

VARIABLES
    tree,          \* the source tree
    modules,       \* what the interpreter can import
    conf,          \* app.config, and which entry point is called
    fs,            \* the output directory
    pc,            \* "idle", or the loop the call is in: "walk" (recurse_tree's
                   \* loop), "package" (create_package_file's loop), "toplevel"
                   \* (recurse_tree's loop over py_files)
    run,           \* generate's arguments as recurse_tree receives them
    root_package,  \* recurse_tree's root_package
    todo,          \* the directories walk() has still to yield
    job,           \* the locals of the inner loop: fn, var and the submods or
                   \* py_files still to handle
    toplevels,     \* recurse_tree's toplevels
    calls,         \* the write_file calls of the current run, in order
    runs,          \* the finished calls of the entry point
    probe,         \* a single call of is_excluded: its arguments and result
    member         \* a single call of get_members: its arguments and result

vars ==
    <<tree, modules, conf, fs, pc, run, root_package, todo, job, toplevels, calls, runs,
      probe, member>>

\* What a run does not change: its inputs.
env == <<tree, modules, conf, probe, member>>

Init ==
    /\ tree \in Trees \cup {SlashTree}
    /\ \E broken \in BrokenChoices : modules = ModulesOf(tree, broken)
    /\ conf \in {c \in [entry : {"generate", "main"},
                        jinjaapi_srcdir : SrcChoices,
                        jinjaapi_outputdir : {OUT},
                        jinjaapi_exclude_paths : ExcludeChoices,
                        jinjaapi_force : BOOLEAN,
                        jinjaapi_dryrun : BOOLEAN,
                        jinjaapi_includeprivate : BOOLEAN,
                        jinjaapi_nodelete : BOOLEAN,
                        source_suffix : {".rst"}] :
                   /\ c.entry = "generate" => c.jinjaapi_nodelete
                   /\ tree = SlashTree => c.jinjaapi_srcdir = "/"
                   /\ c.jinjaapi_srcdir # "root" =>
                        /\ tree \in {FullTree, SlashTree}
                        /\ c.jinjaapi_exclude_paths = <<>>
                        /\ c.jinjaapi_includeprivate}
    /\ conf.jinjaapi_srcdir # "root" => modules = ModulesOf(tree, {})
    /\ fs \in FsChoices
    /\ pc = "idle"
    /\ run = NoRun
    /\ root_package = None
    /\ todo = <<>>
    /\ job = NoJob
    /\ toplevels = <<>>
    /\ calls = <<>>
    /\ runs = <<>>
    /\ probe = NoProbe
    /\ member = NoMember

\* The call of the entry point ends, by a return or by an exception.
EndRun(outcome, before, after, cs, tl) ==
    /\ runs' = Append(runs, [outcome |-> outcome, before |-> before, after |-> after,
                             calls |-> cs, toplevels |-> tl])
    /\ fs' = after
    /\ pc' = "idle"
    /\ run' = NoRun
    /\ root_package' = None
    /\ todo' = <<>>
    /\ job' = NoJob
    /\ toplevels' = <<>>
    /\ calls' = <<>>

\* generate with the output directory made before the source is tested.
generate_makedirs_first(before, fs1, src, dest, exclude, force, dryrun, private, suffix) ==
    IF ~isdir(tree, src)
    THEN EndRun("OSError", before, IF ~fs1.exists /\ ~dryrun THEN mkdir(fs1) ELSE fs1,
                <<>>, <<>>)
    ELSE /\ fs' = IF ~fs1.exists /\ ~dryrun THEN mkdir(fs1) ELSE fs1
         /\ run' = [src |-> normpath(abspath(src)),
                    excludes |-> normalize_excludes(exclude),
                    before |-> before,
                    o |-> [dest |-> dest, suffix |-> strip(suffix, "."),
                           dryrun |-> dryrun, force |-> force, private |-> private]]
         /\ root_package' = root_package_of(tree, normpath(abspath(src)))
         /\ todo' = <<normpath(abspath(src))>>
         /\ pc' = "walk"
         /\ UNCHANGED <<runs, job, toplevels, calls>>

\* generate(app, src, dest, exclude, followlinks, force, dryrun, private,
\* suffix, template_dirs) up to the first iteration of recurse_tree's loop,
\* called on the output directory fs1; before is the output directory when
\* the entry point was called.
generate(before, fs1, src, dest, exclude, force, dryrun, private, suffix) ==
    IF ~isdir(tree, src)
    THEN EndRun("OSError", before, fs1, <<>>, <<>>)
    ELSE /\ fs' = IF ~fs1.exists /\ ~dryrun THEN mkdir(fs1) ELSE fs1
         /\ run' = [src |-> normpath(abspath(src)),
                    excludes |-> normalize_excludes(exclude),
                    before |-> before,
                    o |-> [dest |-> dest, suffix |-> strip(suffix, "."),
                           dryrun |-> dryrun, force |-> force, private |-> private]]
         /\ root_package' = root_package_of(tree, normpath(abspath(src)))
         /\ todo' = <<normpath(abspath(src))>>
         /\ pc' = "walk"
         /\ UNCHANGED <<runs, job, toplevels, calls>>

\* A caller calls generate with the values of the configuration.
Generate ==
    /\ pc = "idle" /\ Len(runs) < MaxRuns /\ conf.entry = "generate"
    /\ generate(fs, fs, conf.jinjaapi_srcdir, conf.jinjaapi_outputdir,
                conf.jinjaapi_exclude_paths, conf.jinjaapi_force,
                conf.jinjaapi_dryrun, conf.jinjaapi_includeprivate, "rst")
    /\ UNCHANGED env

\* main(app), the handler of builder-inited
Main ==
    /\ pc = "idle" /\ Len(runs) < MaxRuns /\ conf.entry = "main"
    /\ IF conf.jinjaapi_srcdir = ""
       THEN EndRun("nosrc", fs, fs, <<>>, <<>>)
       ELSE generate(fs, prepare_dir(fs, ~conf.jinjaapi_nodelete),
                     conf.jinjaapi_srcdir, conf.jinjaapi_outputdir,
                     conf.jinjaapi_exclude_paths, conf.jinjaapi_force,
                     conf.jinjaapi_dryrun, conf.jinjaapi_includeprivate,
                     conf.source_suffix)
    /\ UNCHANGED env

\* The body of recurse_tree's loop for a package that gets its document:
\* create_package_file is entered, up to its loop over var['submods'].
EnterPackage(root, subs, sub_package) ==
    IF ~makename_assert(root_package, sub_package)
    THEN EndRun(MakenameError, run.before, fs, calls, toplevels)
    ELSE /\ job' = [root_package |-> root_package, sub_package |-> sub_package,
                    fn |-> makename(root_package, sub_package),
                    var |-> ("ispkg" :> TRUE)
                            @@ get_context(tree, modules, root_package, sub_package,
                                           makename(root_package, sub_package)),
                    rest |-> get_context(tree, modules, root_package, sub_package,
                                 makename(root_package, sub_package))["submods"]]
         /\ pc' = "package"
         /\ todo' = [i \in 1..Len(subs) |-> pathjoin(root, subs[i])] \o Tail(todo)
         /\ UNCHANGED <<fs, run, root_package, toplevels, calls, runs>>

\* One iteration of the loop of recurse_tree, for the directory root that
\* walk() yields, up to the inner loop it enters.
WalkBody(root, py_files, subs) ==
    IF ~is_pkg_of(py_files) /\ root # run.src
    THEN \* del subs[:]; continue
         /\ todo' = Tail(todo)
         /\ UNCHANGED <<fs, pc, run, root_package, job, toplevels, calls, runs>>
    ELSE IF is_pkg_of(py_files)
    THEN IF qualifies(subs, py_files, root, run.o.private)
         THEN EnterPackage(root, subs, subpackage_of(root, run.src))
         ELSE /\ todo' = [i \in 1..Len(subs) |-> pathjoin(root, subs[i])] \o Tail(todo)
              /\ UNCHANGED <<fs, pc, run, root_package, job, toplevels, calls, runs>>
    ELSE IF ~(root = run.src /\ root_package = None)
    THEN EndRun("AssertionError", run.before, fs, calls, toplevels)
    ELSE /\ job' = [NoJob EXCEPT !.rest = py_files]
         /\ pc' = "toplevel"
         /\ todo' = [i \in 1..Len(subs) |-> pathjoin(root, subs[i])] \o Tail(todo)
         /\ UNCHANGED <<fs, run, root_package, toplevels, calls, runs>>

WalkDir ==
    /\ pc = "walk" /\ Len(todo) > 0
    /\ WalkBody(Head(todo), py_files_of(tree, Head(todo), run.excludes),
                subs_of(tree, Head(todo), run.excludes, run.o.private))
    /\ UNCHANGED env

\* The effect of a create_module_file or write_file call with result w.
AfterWrite(w) ==
    IF w.raised # ""
    THEN EndRun(w.raised, run.before, w.fs, calls \o w.calls, toplevels)
    ELSE /\ fs' = w.fs
         /\ calls' = calls \o w.calls
         /\ UNCHANGED <<pc, run, root_package, todo, runs>>

\* One iteration of create_package_file's loop over var['submods'].
PackageSubmod ==
    /\ pc = "package" /\ Len(job.rest) > 0
    /\ IF shall_skip(Head(job.rest), run.o.private)
       THEN /\ job' = [job EXCEPT !.rest = Tail(@)]
            /\ UNCHANGED <<fs, pc, run, root_package, todo, toplevels, calls, runs>>
       ELSE /\ AfterWrite(create_module_file(fs, tree, modules, job.fn, Head(job.rest),
                                             run.o))
            /\ pc' = "package" => /\ job' = [job EXCEPT !.rest = Tail(@)]
                                  /\ UNCHANGED toplevels
    /\ UNCHANGED env

\* The end of create_package_file, the package's document is written, and
\* of the iteration of recurse_tree's loop.
PackageWrite ==
    /\ pc = "package" /\ Len(job.rest) = 0
    /\ LET w == write_file(fs, job.fn, render(PACKAGE_TEMPLATE_NAME, job.var),
                           run.o.dest, run.o.suffix, run.o.dryrun, run.o.force)
       IN IF w.raised # ""
          THEN EndRun(w.raised, run.before, w.fs, calls \o w.calls, toplevels)
          ELSE IF ~makename_assert(job.root_package, job.sub_package)
          THEN EndRun(MakenameError, run.before, w.fs, calls \o w.calls, toplevels)
          ELSE /\ fs' = w.fs
               /\ calls' = calls \o w.calls
               /\ toplevels' = Append(toplevels,
                                      makename(job.root_package, job.sub_package))
               /\ pc' = "walk"
               /\ job' = NoJob
               /\ UNCHANGED <<run, root_package, todo, runs>>
    /\ UNCHANGED env

\* One iteration of recurse_tree's loop over the py_files of a root that is
\* no package.
ToplevelFile ==
    /\ pc = "toplevel" /\ Len(job.rest) > 0
    /\ IF ~shall_skip(pathjoin(run.src, Head(job.rest)), run.o.private)
       THEN /\ AfterWrite(create_module_file(fs, tree, modules, root_package,
                                             splitext(Head(job.rest))[1], run.o))
            /\ pc' = "toplevel" =>
                 /\ job' = [job EXCEPT !.rest = Tail(@)]
                 /\ toplevels' = Append(toplevels, splitext(Head(job.rest))[1])
       ELSE /\ job' = [job EXCEPT !.rest = Tail(@)]
            /\ UNCHANGED <<fs, pc, run, root_package, todo, toplevels, calls, runs>>
    /\ UNCHANGED env

\* The loop over py_files is exhausted: the next iteration of the walk.
ToplevelDone ==
    /\ pc = "toplevel" /\ Len(job.rest) = 0
    /\ pc' = "walk"
    /\ job' = NoJob
    /\ UNCHANGED <<env, fs, run, root_package, todo, toplevels, calls, runs>>

\* walk() is exhausted: recurse_tree returns toplevels, generate returns.
Return ==
    /\ pc = "walk" /\ Len(todo) = 0
    /\ EndRun("returned", run.before, fs, calls, toplevels)
    /\ UNCHANGED env

Next ==
    \/ Generate
    \/ Main
    \/ WalkDir
    \/ PackageSubmod
    \/ PackageWrite
    \/ ToplevelFile
    \/ ToplevelDone
    \/ Return

Spec == Init /\ [][Next]_vars
(***************************************************************************)
(* is_excluded on its own: any list of exclusions, normalized as generate  *)
(* does, and any path.                                                     *)
(***************************************************************************)
\* How many components a path asked about has at most.
MaxDepth == 3

\* How many entries the exclusion list has at most.
MaxExcludes == 2

PathComponents == {"a", "foo", "foobar", ".", ".."}

RECURSIVE PathsOfDepth(_)
PathsOfDepth(n) ==
    IF n = 0 THEN {""}
    ELSE {p \o SEP \o c : p \in PathsOfDepth(n - 1), c \in PathComponents}

ProbePaths == UNION {PathsOfDepth(n) : n \in 1..MaxDepth}

\* Exclusions as the user writes them.
RawExcludes == {"/a/foo", "/a/foo/", "/a/x/../foobar", "a/foo"}

ExcludeLists == UNION {[1..n -> RawExcludes] : n \in 0..MaxExcludes}

InitExcl ==
    /\ tree = FullTree
    /\ modules = ModulesOf(FullTree, {})
    /\ conf = [entry |-> "generate", jinjaapi_srcdir |-> "root",
               jinjaapi_outputdir |-> OUT, jinjaapi_exclude_paths |-> <<>>,
               jinjaapi_force |-> FALSE, jinjaapi_dryrun |-> FALSE,
               jinjaapi_includeprivate |-> FALSE, jinjaapi_nodelete |-> TRUE,
               source_suffix |-> ".rst"]
    /\ fs = [exists |-> FALSE, files |-> <<>>]
    /\ pc = "idle"
    /\ run = NoRun
    /\ root_package = None
    /\ todo = <<>>
    /\ job = NoJob
    /\ toplevels = <<>>
    /\ calls = <<>>
    /\ runs = <<>>
    /\ \E raw \in ExcludeLists :
          probe = [NoProbe EXCEPT !.excludes = normalize_excludes(raw),
                                  !.given = normalize_excludes(raw)]
    /\ member = NoMember

\* is_excluded(root, excludes) is called, once; excludes is the caller's
\* list.
IsExcluded ==
    /\ ~probe.asked
    /\ \E root \in ProbePaths :
          probe' = [probe EXCEPT !.root = root,
                                 !.result = is_excluded(root, probe.excludes),
                                 !.asked = TRUE]
    /\ UNCHANGED <<tree, modules, conf, fs, pc, run, root_package, todo, job, toplevels,
                   calls, runs, member>>

NextExcl == IsExcluded

SpecExcl == InitExcl /\ [][NextExcl]_vars

(***************************************************************************)
(* get_members on its own: a module object with any attributes, any typ    *)
(* and any whitelist.                                                      *)
(***************************************************************************)
\* How many attributes the module object has at most.
MaxAttrs == 4

\* The name of the module object get_members is called on.
MODNAME == "pkg.mod"

\* The attributes a module can have, in the order dir() lists them: classes,
\* exceptions and functions defined in the module or imported into it, an
\* imported module and a value.
AttrPool ==
    <<[name |-> "Base", kind |-> "class", module |-> "abc"],
      [name |-> "Error", kind |-> "exception", module |-> MODNAME],
      [name |-> "IOError", kind |-> "exception", module |-> "builtins"],
      [name |-> "Klass", kind |-> "class", module |-> MODNAME],
      [name |-> "_helper", kind |-> "function", module |-> MODNAME],
      [name |-> "_hidden", kind |-> "class", module |-> MODNAME],
      [name |-> "func", kind |-> "function", module |-> MODNAME],
      [name |-> "join", kind |-> "function", module |-> "posixpath"],
      [name |-> "os", kind |-> "module", module |-> "os"],
      [name |-> "value", kind |-> "data", module |-> "builtins"]>>

\* The attribute lists of at most MaxAttrs attributes.
AttrLists ==
    {SelectSeq(AttrPool, LAMBDA a : a.name \in N) :
        N \in {M \in SUBSET {AttrPool[i].name : i \in 1..Len(AttrPool)} :
                  Cardinality(M) <= MaxAttrs}}

\* typ: the five categories and a name that is none.
TypChoices == {"class", "function", "exception", "data", "members", "method"}

\* include_public: nothing, or private names to show
IncludePublicChoices == {{}, {"_helper"}, {"_hidden", "_gone"}}

InitMembers ==
    /\ tree = FullTree
    /\ modules = ModulesOf(FullTree, {})
    /\ conf = [entry |-> "generate", jinjaapi_srcdir |-> "root",
               jinjaapi_outputdir |-> OUT, jinjaapi_exclude_paths |-> <<>>,
               jinjaapi_force |-> FALSE, jinjaapi_dryrun |-> FALSE,
               jinjaapi_includeprivate |-> FALSE, jinjaapi_nodelete |-> TRUE,
               source_suffix |-> ".rst"]
    /\ fs = [exists |-> FALSE, files |-> <<>>]
    /\ pc = "idle"
    /\ run = NoRun
    /\ root_package = None
    /\ todo = <<>>
    /\ job = NoJob
    /\ toplevels = <<>>
    /\ calls = <<>>
    /\ runs = <<>>
    /\ probe = NoProbe
    /\ \E attrs \in AttrLists :
          member = [NoMember EXCEPT !.mod = [path |-> None, attrs |-> attrs],
                                    !.name = MODNAME]

\* get_members(app, mod, typ, include_public) is called.
GetMembers ==
    /\ \E typ \in TypChoices, include_public \in IncludePublicChoices :
          member' = [member EXCEPT
                        !.typ = typ,
                        !.include_public = include_public,
                        !.public = get_members(member.mod, member.name, typ,
                                               include_public)[1],
                        !.items = get_members(member.mod, member.name, typ,
                                              include_public)[2],
                        !.asked = TRUE]
    /\ UNCHANGED <<tree, modules, conf, fs, pc, run, root_package, todo, job, toplevels,
                   calls, runs, probe>>

NextMembers == GetMembers

SpecMembers == InitMembers /\ [][NextMembers]_vars

(***************************************************************************)
(* The history the properties read                                         *)
(***************************************************************************)
\* P holds of every write_file call made so far, in the finished runs and
\* in the current one.
AllLogged(P(_)) ==
    /\ \A i \in 1..Len(runs) : \A k \in 1..Len(runs[i].calls) : P(runs[i].calls[k])
    /\ \A k \in 1..Len(calls) : P(calls[k])

\* The write_file calls of finished runs.
Logged ==
    UNION {{runs[i].calls[k] : k \in 1..Len(runs[i].calls)} : i \in 1..Len(runs)}

\* The names write_file was called with in a list of calls, in order.
Names(cs) == [k \in 1..Len(cs) |-> cs[k].name]

\* The run walks the tree at /w/root.
WalksRoot == conf.jinjaapi_srcdir = "root"

SRC == "/w/root"

Excludes == normalize_excludes(conf.jinjaapi_exclude_paths)

\* C1: write_file follows the three-state policy: under dryrun the target
\* is neither created nor modified; without dryrun and without force an
\* existing target keeps its content; in every other case the target
\* exists afterwards and holds exactly the given text.
C1_WritePolicy ==
    AllLogged(LAMBDA c :
        /\ c.dryrun => (c.exists = c.existed /\ c.after = c.before)
        /\ (~c.dryrun /\ ~c.force /\ c.existed) => (c.exists /\ c.after = c.before)
        /\ (~c.dryrun /\ (c.force \/ ~c.existed)) => (c.exists /\ c.after = <<c.text>>))

\* A file was created by one call and a later call without force skipped it.
C1_Witness ==
    \E c1, c2 \in Logged :
        /\ ~c1.dryrun /\ ~c1.existed /\ c1.exists /\ c1.after = <<c1.text>>
        /\ ~c2.dryrun /\ ~c2.force /\ c2.existed /\ c2.after = c2.before

\* C2: a run with dry-run enabled, entered through main or through
\* generate, leaves the output directory as it found it: nothing written,
\* created or deleted, the directory itself included.
C2_DryRunLeavesFilesystemUnchanged ==
    conf.jinjaapi_dryrun =>
        /\ \A i \in 1..Len(runs) : runs[i].after = runs[i].before
        /\ pc # "idle" => fs = run.before

\* A directory of the tree whose only eligible file is the marker file and
\* that has no sub-directory left after the filter.
MarkerOnly(d) ==
    /\ py_files_of(tree, d, Excludes) = <<INITPY>>
    /\ subs_of(tree, d, Excludes, conf.jinjaapi_includeprivate) = <<>>

\* The name of the package document of directory d.
PackageName(d) ==
    makename(IF pathjoin(SRC, INITPY) \in tree.files THEN basename(SRC) ELSE None,
             subpackage_of(d, SRC))

\* C3: for a package directory that holds only the marker file, no package
\* document is generated and its name is not in the returned list.
C3_MarkerOnlyPackageNotDocumented ==
    \A i \in 1..Len(runs) :
        \A d \in {e \in tree.dirs : startswith(e, SRC)} :
            (WalksRoot /\ MarkerOnly(d)) =>
                /\ \A k \in 1..Len(runs[i].calls) : runs[i].calls[k].name # PackageName(d)
                /\ \A k \in 1..Len(runs[i].toplevels) :
                      runs[i].toplevels[k] # PackageName(d)

\* C4: with private-inclusion off no module document is generated for a
\* module whose name starts with an underscore, at a root that is no
\* package as well as inside a package; the marker file is never skipped.
C4_PrivateModulesSkipped ==
    /\ AllLogged(LAMBDA c :
          (~c.text.var["ispkg"] /\ ~conf.jinjaapi_includeprivate)
              => ~startswith(c.text.var["module"], "_"))
    /\ \A private \in BOOLEAN : ~shall_skip(INITPY, private)

\* The root of the walk is no package.
RootIsNoPackage == WalksRoot /\ pathjoin(SRC, INITPY) \notin tree.files

\* The names of the modules at the top level of the root.
TopLevelModules == {splitext(f)[1] : f \in listfiles(tree, SRC)}

PackageSubdirs ==
    {d \in listsubs(tree, SRC) : pathjoin(pathjoin(SRC, d), INITPY) \in tree.files}

\* The normalized paths of the exclusion list.
ExcludedPaths == {Excludes[i] : i \in 1..Len(Excludes)}

\* The eligible source files of directory d: those with a source suffix
\* whose path is not among the excluded paths exs.
EligibleFiles(d, exs) ==
    {g \in listfiles(tree, d) : splitext(g)[2] \in PY_SUFFIXES /\ pathjoin(d, g) \notin exs}

\* The sub-directories of the root that the walk is handed: neither the
\* prefix filter nor the excluded paths exs remove them.
WalkedSubdirs(exs) ==
    {e \in listsubs(tree, SRC) :
        /\ ~startswith(e, ".")
        /\ conf.jinjaapi_includeprivate \/ ~startswith(e, "_")
        /\ pathjoin(SRC, e) \notin exs}

\* The sub-directories of the root that the walk is handed and that are
\* packages with a module of their own.
DocumentedSubdirs ==
    LET exs == ExcludedPaths
    IN {d \in WalkedSubdirs(exs) :
           LET fl == EligibleFiles(pathjoin(SRC, d), exs)
           IN INITPY \in fl /\ Cardinality(fl) > 1}

C6_ExactPathExclusion ==
    probe.asked =>
        LET hit == \E i \in 1..Len(probe.excludes) :
                       probe.excludes[i] = normpath(probe.root)
            prefix == \E i \in 1..Len(probe.excludes) :
                          startswith(normpath(probe.root), probe.excludes[i])
        IN /\ probe.result <=> hit
           /\ (prefix /\ ~hit) => ~probe.result
           /\ probe.excludes = probe.given

\* /a/foo is excluded and its sibling /a/foobar was asked about.
C6_Witness ==
    /\ probe.asked /\ ~probe.result
    /\ normpath(probe.root) = "/a/foobar"
    /\ \E i \in 1..Len(probe.excludes) : probe.excludes[i] = "/a/foo"

\* C7: two runs in a row with force on and dry-run off, over the same
\* tree, exclusions, imports and templates, leave the output directory
\* with the same files and the same content in each.
C7_Idempotent ==
    \A i \in 1..Len(runs) - 1 :
        (/\ conf.jinjaapi_force /\ ~conf.jinjaapi_dryrun
         /\ runs[i].outcome = "returned" /\ runs[i + 1].outcome = "returned")
        => runs[i + 1].after = runs[i].after

\* Two runs of generate returned, the first having written documents.
C7_Witness ==
    /\ Len(runs) >= 2
    /\ conf.entry = "generate" /\ conf.jinjaapi_force /\ ~conf.jinjaapi_dryrun
    /\ runs[1].outcome = "returned" /\ runs[2].outcome = "returned"
    /\ Len(runs[1].calls) >= 2
    /\ runs[1].after # runs[1].before
    /\ Len(runs[2].calls) >= 2

\* The tree of the end-to-end case (a root with marker file, mod_a, and
\* pkg_b holding a marker file and mod_c), every import succeeding, nothing
\* excluded, and a finished run i in which every write_file call writes.
EndToEnd(i) ==
    /\ WalksRoot /\ tree = FullTree /\ modules = ModulesOf(FullTree, {})
    /\ conf.jinjaapi_exclude_paths = <<>>
    /\ i \in 1..Len(runs) /\ runs[i].outcome = "returned"
    /\ ~conf.jinjaapi_dryrun /\ (conf.jinjaapi_force \/ ~runs[i].before.exists)

\* The calls of a list that wrote their document (not a dry run, not a
\* skip), in order.
Wrote(cs) ==
    SelectSeq(cs, LAMBDA c : ~c.dryrun /\ (c.force \/ ~c.existed) /\ c.after = <<c.text>>)

IsPackageDoc(c) == c.text.template = PACKAGE_TEMPLATE_NAME

IsModuleDoc(c) == c.text.template = MODULE_TEMPLATE_NAME

\* name is the dotted name of a direct child of parent.
IsChildOf(name, parent) ==
    startswith(name, parent \o ".") /\ rfind(name, ".", Len(name)) = Len(parent) + 1

TwoAndTwo(w) ==
    /\ Cardinality({k \in 1..Len(w) : IsPackageDoc(w[k])}) = 2
    /\ Cardinality({k \in 1..Len(w) : IsModuleDoc(w[k])}) = 2
    /\ Len(w) = 4

\* C8 as stated: in the end-to-end case two package documents and two
\* module documents are written, and no child document is written before
\* the package document of its parent.
C8_ChildrenAfterParent ==
    \A i \in 1..Len(runs) :
        EndToEnd(i) =>
            LET w == Wrote(runs[i].calls)
            IN /\ TwoAndTwo(w)
               /\ \A a, b \in 1..Len(w) : IsChildOf(w[b].name, w[a].name) => a < b

\* C8 amended: in the end-to-end case two package documents and two module
\* documents are written; the document of a subpackage is written after
\* the package document of its parent, and each module document of a
\* package is written before the package document of that package.
C8_ModulesBeforeTheirPackage ==
    \A i \in 1..Len(runs) :
        EndToEnd(i) =>
            LET w == Wrote(runs[i].calls)
            IN /\ TwoAndTwo(w)
               /\ \A a, b \in 1..Len(w) :
                     IsChildOf(w[b].name, w[a].name) =>
                        /\ IsPackageDoc(w[b]) => a < b
                        /\ IsModuleDoc(w[b]) => b < a

\* The end-to-end case ran and wrote root.mod_a, root, root.pkg_b.mod_c and
\* root.pkg_b.
C8_Witness ==
    /\ EndToEnd(1)
    /\ Names(Wrote(runs[1].calls)) = <<"root.mod_a", "root", "root.pkg_b.mod_c", "root.pkg_b">>

\* The variables get_context binds to a list.
ListVariables ==
    {"subpkgs", "submods", "classes", "allclasses", "exceptions", "allexceptions",
     "functions", "allfunctions", "data", "alldata", "members"}

\* C9: the context of a name whose import failed holds package, module and
\* fullname, and binds every list variable of a successful import, members
\* included, to an empty list.
C9_FailedImportContext ==
    AllLogged(LAMBDA c :
        ~import_ok(modules, c.text.var["fullname"]) =>
            /\ {"package", "module", "fullname"} \cup ListVariables \subseteq DOMAIN c.text.var
            /\ \A k \in ListVariables : c.text.var[k] = <<>>)

\* C10: generate called with a source path that is no directory raises
\* OSError and leaves the output directory as it was, not created and
\* nothing written, whatever dryrun and force.
C10_NotADirectory ==
    (conf.entry = "generate" /\ ~isdir(tree, conf.jinjaapi_srcdir)) =>
        /\ pc = "idle"
        /\ \A i \in 1..Len(runs) :
              /\ runs[i].outcome = "OSError"
              /\ runs[i].after = runs[i].before
              /\ runs[i].calls = <<>>
              /\ i = Len(runs) => fs = runs[i].after

\* generate was called on a file, dry-run off, the output directory missing.
C10_Witness ==
    /\ conf.entry = "generate" /\ conf.jinjaapi_srcdir = "root/mod_a.py"
    /\ ~conf.jinjaapi_dryrun
    /\ Len(runs) >= 1 /\ ~runs[1].before.exists /\ runs[1].outcome = "OSError"

\* The names, in the order of dir(), of the attributes of the module that
\* satisfy P.
NamesWhere(P(_)) ==
    LET sel == SelectSeq(member.mod.attrs, P)
    IN [i \in 1..Len(sel) |-> sel[i].name]

\* C11 as stated: the class list holds exactly the names whose value is a
\* class that is no exception type, the exception list exactly those whose
\* value is an exception type, the function list exactly those whose value
\* is a plain function, wherever the class or function was defined.
C11_ClassifiedByKindAlone ==
    member.asked =>
        /\ member.typ = "class" =>
              member.items = NamesWhere(LAMBDA a : a.kind = "class")
        /\ member.typ = "exception" =>
              member.items = NamesWhere(LAMBDA a : a.kind = "exception")
        /\ member.typ = "function" =>
              member.items = NamesWhere(LAMBDA a : a.kind = "function")

\* C11 amended: each of the three lists holds exactly the names whose value
\* is of the kind and was defined in the module itself; a class, exception
\* or function imported from another module is in none of them.
C11_ClassifiedByKindAndModule ==
    member.asked =>
        /\ member.typ = "class" =>
              member.items = NamesWhere(LAMBDA a : a.kind = "class" /\ a.module = member.name)
        /\ member.typ = "exception" =>
              member.items = NamesWhere(LAMBDA a : a.kind = "exception"
                                                   /\ a.module = member.name)
        /\ member.typ = "function" =>
              member.items = NamesWhere(LAMBDA a : a.kind = "function"
                                                   /\ a.module = member.name)

\* The classes of a module with a class of its own and an imported one
\* were asked for.
C11_Witness ==
    /\ member.asked /\ member.typ = "class"
    /\ \E i, j \in 1..Len(member.mod.attrs) :
          /\ member.mod.attrs[i].name = "Base"
          /\ member.mod.attrs[j].name = "Klass"
    /\ member.items = <<"Klass">>

\* C12: for every category the public list is the all list restricted, in
\* order, to the names that do not start with an underscore or are in
\* include_public; for an unknown category both lists are empty.
C12_PublicIsFilteredAll ==
    member.asked =>
        /\ member.public =
              SelectSeq(member.items,
                        LAMBDA n : ~startswith(n, "_") \/ n \in member.include_public)
        /\ member.typ \notin {"class", "function", "exception", "data", "members"} =>
              (member.public = <<>> /\ member.items = <<>>)

\* A whitelisted private function is public, next to a public one.
C12_Witness ==
    /\ member.asked /\ member.typ = "function"
    /\ member.include_public = {"_helper"}
    /\ member.items = <<"_helper", "func">>
    /\ member.public = <<"_helper", "func">>

\* C13: every call of makename in a run has a package or a module that is
\* not empty: the assertion of makename never fails, and every document
\* name and every name of the returned list is a non-empty name.
C13_SourceNameNeverEmpty ==
    /\ \A i \in 1..Len(runs) :
          /\ runs[i].outcome # MakenameError
          /\ \A k \in 1..Len(runs[i].toplevels) : runs[i].toplevels[k] # ""
    /\ AllLogged(LAMBDA c : c.name # "")

\* The directories below the root that the walk is handed and that are no
\* packages.
NonPackageSubdirs ==
    {pathjoin(SRC, d) :
        d \in {e \in WalkedSubdirs(ExcludedPaths) :
                  pathjoin(pathjoin(SRC, e), INITPY) \notin tree.files}}

\* The module names of the eligible source files of directory d.
EligibleModules(d) == {splitext(f)[1] : f \in EligibleFiles(d, ExcludedPaths)}

\* C14 as stated: for a directory of the walk that is no package and not
\* the root, each eligible source file becomes a module document.
C14_NonPackageDirFilesDocumented ==
    \A i \in 1..Len(runs) :
        (WalksRoot /\ runs[i].outcome = "returned") =>
            \A d \in NonPackageSubdirs : \A m \in EligibleModules(d) :
                \E k \in 1..Len(runs[i].calls) :
                    /\ IsModuleDoc(runs[i].calls[k])
                    /\ runs[i].calls[k].text.var["module"] = m

\* The directories below the root that are no packages, handed to the walk
\* or not.
PlainSubdirs ==
    {pathjoin(SRC, e) :
        e \in {f \in listsubs(tree, SRC) :
                  pathjoin(pathjoin(SRC, f), INITPY) \notin tree.files}}

\* The module names of the source files of directory d.
SourceModules(d) ==
    {splitext(g)[1] : g \in {h \in listfiles(tree, d) : splitext(h)[2] \in PY_SUFFIXES}}

\* C14 amended: for a directory below the root that is no package nothing
\* is generated, neither a module document for a source file of it nor a
\* package document for the directory.
C14_NonPackageDirSkipped ==
    WalksRoot =>
        LET names == {PackageName(d) : d \in PlainSubdirs}
            mods == UNION {SourceModules(d) : d \in PlainSubdirs}
        IN AllLogged(LAMBDA c : c.name \notin names /\ c.text.var["module"] \notin mods)

\* A run over a root with a sub-directory that is no package and holds a
\* source file returned, having written documents.
C14_Witness ==
    /\ WalksRoot
    /\ "/w/root/plain" \in NonPackageSubdirs
    /\ "mod_d" \in EligibleModules("/w/root/plain")
    /\ \E i \in 1..Len(runs) :
          runs[i].outcome = "returned" /\ Len(runs[i].calls) > 0

\* C15: the assertion `root == src and root_package is None` of
\* recurse_tree holds in every run, whatever the tree and the exclusions,
\* the marker file of the root among them: no run ends with its
\* AssertionError.
C15_WalkAssertionHolds ==
    \A i \in 1..Len(runs) : runs[i].outcome # "AssertionError"

\* The source files of the tree whose module the document of call c is for.
SourceFilesOf(c) ==
    {f \in tree.files :
        splitext(f)[2] \in PY_SUFFIXES /\ DottedName(tree, splitext(f)[1]) = c.name}

\* C16: no module document is generated for a module whose source file is
\* in the exclusion set, inside a documented package as well as at the top
\* level.
C16_ExcludedModuleNotDocumented ==
    WalksRoot =>
        AllLogged(LAMBDA c :
            IsModuleDoc(c) => \A f \in SourceFilesOf(c) : ~is_excluded(f, Excludes))

\* In the calls cs, a package document whose import failed has no module
\* document of that package next to it.
NoModuleDocsOfFailedPackage(cs) ==
    \A k \in 1..Len(cs) :
        (IsPackageDoc(cs[k]) /\ ~import_ok(modules, cs[k].name)) =>
            \A j \in 1..Len(cs) :
                IsModuleDoc(cs[j]) => cs[j].text.var["package"] # cs[k].name

\* C17: when the import of a qualifying package fails, its package document
\* is still handed to write_file, and no module document is written for a
\* module file of that package.
C17_FailedPackageHasNoModuleDocs ==
    /\ NoModuleDocsOfFailedPackage(calls)
    /\ \A i \in 1..Len(runs) :
          /\ NoModuleDocsOfFailedPackage(runs[i].calls)
          /\ (WalksRoot /\ runs[i].outcome = "returned") =>
                \A d \in DocumentedSubdirs :
                    LET name == PackageName(pathjoin(SRC, d))
                    IN ~import_ok(modules, name) =>
                          \E k \in 1..Len(runs[i].calls) :
                              /\ runs[i].calls[k].name = name
                              /\ IsPackageDoc(runs[i].calls[k])
                              /\ runs[i].calls[k].text.var["submods"] = <<>>

\* The import of pkg_b, a package holding mod_c, failed in a run that
\* returned: the document of the package was written without its modules.
C17_Witness ==
    /\ WalksRoot /\ "pkg_b" \in DocumentedSubdirs
    /\ "/w/root/pkg_b/mod_c.py" \in tree.files
    /\ ~import_ok(modules, PackageName("/w/root/pkg_b"))
    /\ \E i \in 1..Len(runs) :
          /\ runs[i].outcome = "returned"
          /\ \E k \in 1..Len(runs[i].calls) :
                /\ runs[i].calls[k].name = PackageName("/w/root/pkg_b")
                /\ ~runs[i].calls[k].dryrun /\ runs[i].calls[k].exists

====
